---- MODULE Spec2Model ----
(***************************************************************************)
(* Model of the Gerber conversion service (nihalsaran/Gerber-Api).         *)
(*                                                                         *)
(* The repository holds several variants of one FastAPI application.  The  *)
(* main specification, Spec, models src/main.py: the variant that keeps    *)
(* its artifacts in a directory named by the process-wide OUTPUT_DIR.      *)
(* SpecFair is Spec under the scheduling of the event loop, SpecShutdown   *)
(* is Spec with the shutdown hook.  SpecShared models src/api/mainn.py     *)
(* (one shared directory swept by age), SpecPerRequest src/api/main.py (a  *)
(* temporary directory per request).  SpecClassify applies                 *)
(* process_gerber_files to bounded archives, SpecDim applies the           *)
(* pixels_to_mm functions of the variants to bounded pixel counts and      *)
(* SpecOrder runs the render statements of convert_gerber in both orders.  *)
(*                                                                         *)
(* File and entry names are sequences of one-character strings, so that    *)
(* str.endswith and the `in` substring test are computed, not assumed.     *)
(***************************************************************************)
EXTENDS Integers, Sequences, FiniteSets, TLC

VARIABLES
    OUTPUT_DIR,   \* src/main.py global: 0 models None, d > 0 the d-th mkdtemp() directory
    fs,           \* file system: the d-th mkdtemp() directory |-> (file name |-> stored image)
    req,          \* per conversion request: position in convert_gerber and its locals
    running,      \* request whose handler holds the event loop (0: the loop is free)
    removed,      \* directories deleted by shutil.rmtree or by leaving a TemporaryDirectory
    lastResp,     \* response emitted by the step just taken, when it served get_image or list_images
    store,        \* src/api/mainn.py: the files of TEMP_DIR, file name |-> stored image and its st_mtime
    clock,        \* src/api/mainn.py: time.time(), in seconds
    gets,         \* src/api/mainn.py: per get_image request, its position and what it found
    sweeps,       \* src/api/mainn.py: number of cleanup_old_files tasks that wait to run
    archive,      \* SpecClassify: the namelist() handed to process_gerber_files
    groups,       \* SpecClassify: what process_gerber_files produced for it, and the handler's answer
    pixels,       \* SpecDim: the pixel count handed to pixels_to_mm
    mm,           \* SpecDim: the millimeter values the variants report for it
    trial         \* SpecOrder: two groups, what their renders do, and the outcome per order

vars == <<OUTPUT_DIR, fs, req, running, removed, lastResp, store, clock, gets, sweeps,
         archive, groups, pixels, mm, trial>>

storeVars == <<OUTPUT_DIR, fs, req, running, removed, lastResp>>
storeVars_but_lastResp == <<OUTPUT_DIR, fs, req, running, removed>>
classifyVars == <<archive, groups>>
dimVars == <<pixels, mm>>
trialVars == <<trial>>
sharedVars == <<store, clock, gets, sweeps>>

----------------------------------------------------------------------------
(* Bounds *)

\* number of conversion requests the service receives
MaxReq == 2
\* longest archive namelist SpecClassify enumerates
MaxEntries == 3
\* largest pixel count SpecDim enumerates
MaxPixels == 250
\* number of get_image requests the shared-store variant receives
MaxGet == 1
\* number of cleanup_old_files tasks that are scheduled or running at once
MaxSweeps == 1
\* last second the clock of the shared-store variant reaches
MaxClock == 3601

----------------------------------------------------------------------------
(* Strings *)

gbr_suffix == <<".", "g", "b", "r">>
Top_literal == <<"T", "o", "p">>
zip_suffix == <<".", "z", "i", "p">>
png_suffix == <<".", "p", "n", "g">>
output_top_png == <<"o", "u", "t", "p", "u", "t", "_", "t", "o", "p", ".", "p", "n", "g">>
output_bottom_png == <<"o", "u", "t", "p", "u", "t", "_", "b", "o", "t", "t", "o", "m", ".", "p", "n", "g">>

\* str.endswith(suffix)
EndsWith(s, suffix) ==
    /\ Len(s) >= Len(suffix)
    /\ SubSeq(s, Len(s) - Len(suffix) + 1, Len(s)) = suffix

\* `sub in s` for strings
Contains(s, sub) ==
    \E i \in 1..(Len(s) - Len(sub) + 1) : SubSeq(s, i, i + Len(sub) - 1) = sub

----------------------------------------------------------------------------
(* Dimension calculator *)

DPMM == 40

\* Python's round(a / b) for integers a >= 0, b > 0: the float quotient is
\* within half an ulp of a/b, so the nearest integer is that of the exact
\* quotient, and an exact tie goes to the even neighbour.
RoundHalfEven(a, b) ==
    LET q == a \div b
        r == a % b
    IN  IF 2 * r < b THEN q
        ELSE IF 2 * r > b THEN q + 1
        ELSE IF q % 2 = 0 THEN q ELSE q + 1

\* Variation of pixels_to_mm: a half rounded up instead of to the even neighbour
pixels_to_mm_HalfUp(p) == (2 * p + DPMM) \div (2 * DPMM)

\* src/main.py, src/api/main.py, src/api/mainn.py: round(pixels / DPMM)
pixels_to_mm(p) == RoundHalfEven(p, DPMM)

\* Variation of Average: floor division instead of round()
Average_Floor(total, image_count) ==
    IF image_count > 0 THEN total \div image_count ELSE 0

\* round(total / image_count) if image_count > 0 else 0
Average(total, image_count) ==
    IF image_count > 0 THEN RoundHalfEven(total, image_count) ELSE 0

\* floor(log2(p / 5)) for p >= 5
RECURSIVE Log2Floor5(_)
Log2Floor5(p) == IF p < 10 THEN 0 ELSE 1 + Log2Floor5(p \div 2)

\* The binary exponent e with 2^e <= p/5 < 2^(e+1), for p >= 1
BinExp5(p) ==
    IF p >= 5 THEN Log2Floor5(p)
    ELSE IF p = 1 THEN -3
    ELSE IF p = 2 THEN -2
    ELSE -1

\* 2^k mod 5, k taken modulo 4
Pow2Mod5(k) == CASE k % 4 = 0 -> 1 [] k % 4 = 1 -> 2 [] k % 4 = 2 -> 4 [] OTHER -> 3

\* Whether the double nearest to p/40 lies above p/40 (p not a multiple of
\* 5).  p/40 = (p/5)/8 and the division by 8 is exact; the 53-bit significand
\* of p/5 is p * 2^k / 5 rounded to nearest with k = 52 - BinExp5(p), and it is
\* rounded up exactly when (p * 2^k) mod 5 is 3 or 4.
FloatAbove(p) == ((p % 5) * Pow2Mod5((0 - BinExp5(p)) % 4)) % 5 >= 3

\* src/tempfiles/apii.py: round(pixels / DPMM, 2), in hundredths of a
\* millimeter.  p/40 is 5p/2 hundredths: exact for even p; an exactly
\* representable tie (odd multiples of 5) goes to the even hundredth; any
\* other odd p is decided by the side on which the double of p/40 lies.
pixels_to_mm_2dp(p) ==
    IF p % 2 = 0 \/ p % 5 = 0 THEN RoundHalfEven(5 * p, 2)
    ELSE (5 * p) \div 2 + (IF FloatAbove(p) THEN 1 ELSE 0)

----------------------------------------------------------------------------
(* Layer classifier *)

NoLayersMsg == "No valid Gerber files found in the ZIP file"
DecodeMsg == "codec can't decode"

\* Variation of IsTopLayer: the substring test ignores the case of the "T"
IsTopLayer_AnyCase(file_name) ==
    /\ EndsWith(file_name, gbr_suffix)
    /\ (Contains(file_name, Top_literal) \/ Contains(file_name, <<"t", "o", "p">>))

IsTopLayer(file_name) == EndsWith(file_name, gbr_suffix) /\ Contains(file_name, Top_literal)
IsBottomLayer(file_name) == EndsWith(file_name, gbr_suffix) /\ ~Contains(file_name, Top_literal)

\* Variation of process_gerber_files: the check for two empty groups is missing
process_gerber_files_NoCheck(namelist, undecodable) ==
    LET top_layer_files == SelectSeq(namelist, IsTopLayer)
        bottom_layer_files == SelectSeq(namelist, IsBottomLayer)
        recognized == top_layer_files \o bottom_layer_files
        failed == \E i \in 1..Len(recognized) : recognized[i] \in undecodable
    IN  [raised |-> IF failed THEN "UnicodeDecodeError" ELSE "",
         detail |-> IF failed THEN DecodeMsg ELSE "",
         top_layer_files |-> top_layer_files,
         bottom_layer_files |-> bottom_layer_files]

\* src/main.py process_gerber_files.  namelist is zip_file.namelist(),
\* undecodable the entries whose bytes are not UTF-8.  raised is "" on a
\* normal return; UnicodeDecodeError is a subclass of ValueError.
process_gerber_files(namelist, undecodable) ==
    LET top_layer_files == SelectSeq(namelist, IsTopLayer)
        bottom_layer_files == SelectSeq(namelist, IsBottomLayer)
        recognized == top_layer_files \o bottom_layer_files
    IN  IF top_layer_files = <<>> /\ bottom_layer_files = <<>>
        THEN [raised |-> "ValueError", detail |-> NoLayersMsg,
              top_layer_files |-> top_layer_files,
              bottom_layer_files |-> bottom_layer_files]
        ELSE IF \E i \in 1..Len(recognized) : recognized[i] \in undecodable
        THEN [raised |-> "UnicodeDecodeError", detail |-> DecodeMsg,
              top_layer_files |-> top_layer_files,
              bottom_layer_files |-> bottom_layer_files]
        ELSE [raised |-> "", detail |-> "",
              top_layer_files |-> top_layer_files,
              bottom_layer_files |-> bottom_layer_files]

----------------------------------------------------------------------------
(* Uploads and responses *)

Top_gbr == <<"T", "o", "p", ".", "g", "b", "r">>
bot_gbr == <<"b", "o", "t", ".", "g", "b", "r">>
Top_txt == <<"T", "o", "p", ".", "t", "x", "t">>
notes_txt == <<"n", "o", "t", "e", "s", ".", "t", "x", "t">>
a_zip == <<"a", ".", "z", "i", "p">>
a_gbr == <<"a", ".", "g", "b", "r">>

\* An upload: its filename, whether its bytes open as a zip container, the
\* container's namelist() and the entries whose bytes are not UTF-8 text.
Upload(filename, valid_zip, namelist, undecodable) ==
    [filename |-> filename, valid_zip |-> valid_zip,
     namelist |-> namelist, undecodable |-> undecodable]

NoUpload == Upload(<<>>, FALSE, <<>>, {})

Uploads ==
    { Upload(a_gbr, FALSE, <<>>, {}),                        \* a layer file, not an archive
      Upload(a_zip, FALSE, <<>>, {}),                        \* named .zip, bytes are no zip
      Upload(a_zip, TRUE, <<notes_txt, Top_txt>>, {}),       \* a zip without layer files
      Upload(a_zip, TRUE, <<Top_gbr, notes_txt>>, {}),       \* top side only
      Upload(a_zip, TRUE, <<bot_gbr>>, {}),                  \* bottom side only
      Upload(a_zip, TRUE, <<Top_gbr, bot_gbr>>, {}),         \* both sides
      Upload(a_zip, TRUE, <<Top_gbr, bot_gbr>>, {bot_gbr}) } \* a binary layer entry

\* Pixel sizes <<width, height>> the rendering engine may produce for a side
RenderSizes(name) ==
    IF name = output_top_png THEN { <<100, 200>> } ELSE { <<100, 200>>, <<110, 60>> }

\* Names a client may ask get_image for
ImageNames == { output_top_png, output_bottom_png }

ZipMsg == "Uploaded file must be a ZIP file"
OkMsg == "Gerber files processed successfully"
NoImagesMsg == "No images available. Please convert Gerber files first."
NotFoundMsg == "Image not found"

NoImage == [owner |-> 0, width |-> 0, height |-> 0]
NoAverage == [width |-> 0, height |-> 0]

Response(status, detail, available_images, has_average, average_dimensions, image) ==
    [status |-> status, detail |-> detail, available_images |-> available_images,
     has_average |-> has_average, average_dimensions |-> average_dimensions,
     image |-> image]

NoResponse == Response(0, "", <<>>, FALSE, NoAverage, NoImage)

\* raise HTTPException(status_code=status, detail=detail)
HTTPException(status, detail) == Response(status, detail, <<>>, FALSE, NoAverage, NoImage)

\* Variation of ExceptStatus: `except ValueError` catches an exception of
\* class ValueError itself only, not of a class derived from it
ExceptStatus_ExactClass(exc) ==
    IF exc = "ValueError" THEN 400 ELSE 500

\* src/main.py 127-130: `except ValueError` answers 400, `except Exception` 500.
\* UnicodeDecodeError derives from ValueError and zipfile.BadZipFile from
\* Exception only; the rendering engine is not part of the repository and
\* its errors are taken not to derive from ValueError.
ExceptStatus(exc) ==
    IF exc \in {"ValueError", "UnicodeDecodeError"} THEN 400 ELSE 500

----------------------------------------------------------------------------
(* Measuring stored images *)

RECURSIVE SumWidth(_)
SumWidth(entries) ==
    IF entries = <<>> THEN 0 ELSE Head(entries).width + SumWidth(Tail(entries))

RECURSIVE SumHeight(_)
SumHeight(entries) ==
    IF entries = <<>> THEN 0 ELSE Head(entries).height + SumHeight(Tail(entries))

\* Variation of Measure: only the first existing image is reported
Measure_First(dir, names) ==
    LET Exists(n) == n \in DOMAIN dir
        present == SelectSeq(names, Exists)
    IN  [i \in 1..(IF Len(present) > 0 THEN 1 ELSE 0) |->
            [name |-> present[i],
             width |-> pixels_to_mm(dir[present[i]].width),
             height |-> pixels_to_mm(dir[present[i]].height)]]

\* One available_images entry per name of `names` (in that order) that is a
\* file of `dir`: Image.open and pixels_to_mm of its width and height.
Measure(dir, names) ==
    LET Exists(n) == n \in DOMAIN dir
        present == SelectSeq(names, Exists)
    IN  [i \in 1..Len(present) |->
            [name |-> present[i],
             width |-> pixels_to_mm(dir[present[i]].width),
             height |-> pixels_to_mm(dir[present[i]].height)]]

\* average_dimensions of a list of entries
AverageDimensions(entries) ==
    [width |-> Average(SumWidth(entries), Len(entries)),
     height |-> Average(SumHeight(entries), Len(entries))]

\* All orders in which os.listdir may return the files of a directory
Listings(dir) ==
    LET n == Cardinality(DOMAIN dir)
    IN  { s \in [1..n -> DOMAIN dir] : \A i, j \in 1..n : s[i] = s[j] => i = j }

\* Variation of get_image: the name is looked up in every directory the
\* process has made, the newest holder serving it
get_image_AnyDir(image_name) ==
    LET holders == { d \in 1..Len(fs) : image_name \in DOMAIN fs[d] }
        newest == CHOOSE d \in holders : \A e \in holders : e <= d
    IN  IF OUTPUT_DIR = 0 THEN HTTPException(404, NoImagesMsg)
        ELSE IF holders = {} THEN HTTPException(404, NotFoundMsg)
        ELSE Response(200, "", <<>>, FALSE, NoAverage, fs[newest][image_name])

\* src/main.py get_image
get_image(image_name) ==
    IF OUTPUT_DIR = 0 THEN HTTPException(404, NoImagesMsg)
    ELSE IF image_name \notin DOMAIN fs[OUTPUT_DIR] THEN HTTPException(404, NotFoundMsg)
    ELSE Response(200, "", <<>>, FALSE, NoAverage, fs[OUTPUT_DIR][image_name])

\* Variation of list_images: without an output directory it answers 404, as
\* get_image does
list_images_404(listing) ==
    IF OUTPUT_DIR = 0 THEN HTTPException(404, NoImagesMsg)
    ELSE LET IsPng(f) == EndsWith(f, png_suffix)
             available_images == Measure(fs[OUTPUT_DIR], SelectSeq(listing, IsPng))
         IN  Response(200, "", available_images, TRUE,
                      AverageDimensions(available_images), NoImage)

\* src/main.py list_images; listing is what os.listdir(OUTPUT_DIR) returns
list_images(listing) ==
    IF OUTPUT_DIR = 0 THEN Response(200, "", <<>>, FALSE, NoAverage, NoImage)
    ELSE LET IsPng(f) == EndsWith(f, png_suffix)
             available_images == Measure(fs[OUTPUT_DIR], SelectSeq(listing, IsPng))
         IN  Response(200, "", available_images, TRUE,
                      AverageDimensions(available_images), NoImage)

\* os.listdir(OUTPUT_DIR) when a directory is set; unused otherwise
CurrentListings == IF OUTPUT_DIR = 0 THEN { <<>> } ELSE Listings(fs[OUTPUT_DIR])

----------------------------------------------------------------------------
(* Conversion orchestrator of src/main.py *)

Req == 1..MaxReq

\* The locals of one convert_gerber call.  pc is its position: "idle" (not
\* yet received), "await_read" (suspended at `await file.read()`),
\* "render_top", "render_bottom", "measure", "done".  top_project and
\* bottom_project hold the group's entry names, <<>> modelling None.
\* out_dir is the value of OUTPUT_DIR the call joined its output paths with.
\* made (name |-> pixel size of what this call's render jobs wrote), alone
\* (no other conversion was in flight during the call) and log (the calls
\* the handler has made so far, in the order of the code; kept for the
\* handlers of src/main.py and src/api/main.py) record history.
IdleRequest ==
    [pc |-> "idle", file |-> NoUpload, top_project |-> <<>>, bottom_project |-> <<>>,
     out_dir |-> 0, resp |-> NoResponse, made |-> <<>>, alone |-> TRUE, log |-> <<>>]

\* One call made by a handler: what was called and, for the calls of a side,
\* the output name of that side
Call(step, name) == [step |-> step, name |-> name]

\* src/main.py 58: file.filename.endswith('.zip')
ValidateCall == Call("validate", <<>>)
\* src/main.py 67: zipfile.ZipFile(BytesIO(zip_content))
ExtractCall == Call("extract", <<>>)
\* src/main.py 27-35: the loop over namelist() and the check of the groups
ClassifyCall == Call("classify", <<>>)
\* src/main.py 37-51: zip_file.read(file_name).decode() and
\* GerberFile.from_str of every entry of the top, then of the bottom group
DecodeCall == Call("decode", <<>>)
\* src/main.py 78, 80: project.parse()
ParseCall(name) == Call("parse", name)
\* src/main.py 78, 80: render_raster(path, dpmm=DPMM)
RenderRasterCall(name) == Call("render_raster", name)
\* src/main.py 78, 80: an exception left the render statement of the side
RaisedCall(name) == Call("raise", name)
\* src/main.py 88-90, 101-103: os.path.exists(path) held and Image.open(path)
MeasureCall(name) == Call("measure", name)
\* src/main.py 118 / 59, 128, 130: the JSON response or the HTTPException
RespondCall == Call("respond", <<>>)

InFlight(q) == req[q].pc \notin {"idle", "done"}

StoreInit ==
    /\ OUTPUT_DIR = 0
    /\ fs = <<>>
    /\ req = [r \in Req |-> IdleRequest]
    /\ running = 0
    /\ removed = {}
    /\ lastResp = NoResponse

\* Variation of ConvertStart: the output directory is made before the
\* extension is checked
ConvertStart_MkdtempFirst(r, u) ==
    /\ running = 0
    /\ req[r].pc = "idle"
    /\ \A q \in Req : q < r => req[q].pc # "idle"
    /\ fs' = Append(fs, <<>>)
    /\ OUTPUT_DIR' = Len(fs) + 1
    /\ IF ~EndsWith(u.filename, zip_suffix)
       THEN req' = [req EXCEPT ![r] = [@ EXCEPT !.pc = "done", !.file = u,
                                                !.resp = HTTPException(400, ZipMsg),
                                                !.log = <<ValidateCall, RespondCall>>]]
       ELSE req' = [q \in Req |->
                       IF q = r
                       THEN [req[r] EXCEPT !.pc = "await_read", !.file = u,
                                           !.alone = \A o \in Req : ~InFlight(o),
                                           !.log = <<ValidateCall>>]
                       ELSE IF InFlight(q) THEN [req[q] EXCEPT !.alone = FALSE]
                       ELSE req[q]]
    /\ lastResp' = NoResponse
    /\ UNCHANGED running
    /\ UNCHANGED <<removed, classifyVars, dimVars, trialVars, sharedVars>>

\* src/main.py 56-66: the extension check, OUTPUT_DIR = tempfile.mkdtemp(),
\* then the call suspends at `await file.read()`.
ConvertStart(r, u) ==
    /\ running = 0
    /\ req[r].pc = "idle"
    /\ \A q \in Req : q < r => req[q].pc # "idle"
    /\ IF ~EndsWith(u.filename, zip_suffix)
       THEN /\ req' = [req EXCEPT ![r] = [@ EXCEPT !.pc = "done", !.file = u,
                                                   !.resp = HTTPException(400, ZipMsg),
                                                   !.log = <<ValidateCall, RespondCall>>]]
            /\ UNCHANGED <<OUTPUT_DIR, fs>>
       ELSE /\ fs' = Append(fs, <<>>)
            /\ OUTPUT_DIR' = Len(fs) + 1
            /\ req' = [q \in Req |->
                         IF q = r
                         THEN [req[r] EXCEPT !.pc = "await_read", !.file = u,
                                             !.alone = \A o \in Req : ~InFlight(o),
                                             !.log = <<ValidateCall>>]
                         ELSE IF InFlight(q) THEN [req[q] EXCEPT !.alone = FALSE]
                         ELSE req[q]]
    /\ lastResp' = NoResponse
    /\ UNCHANGED running
    /\ UNCHANGED <<removed, classifyVars, dimVars, trialVars, sharedVars>>

\* src/main.py 66-74: the read returns, zipfile.ZipFile opens the bytes,
\* process_gerber_files classifies and decodes, and the output paths are
\* joined with the current value of the global OUTPUT_DIR.  From here to the
\* response the handler does not await: it holds the event loop.
ReadReturn(r) ==
    /\ running = 0
    /\ req[r].pc = "await_read"
    /\ LET u == req[r].file
           p == process_gerber_files(u.namelist, u.undecodable)
       IN  IF ~u.valid_zip
           THEN /\ req' = [req EXCEPT ![r] = [@ EXCEPT !.pc = "done",
                              !.resp = HTTPException(ExceptStatus("BadZipFile"), "BadZipFile"),
                              !.log = @ \o <<ExtractCall, RespondCall>>]]
                /\ UNCHANGED running
           ELSE IF p.raised # ""
           THEN /\ req' = [req EXCEPT ![r] = [@ EXCEPT !.pc = "done",
                              !.resp = HTTPException(ExceptStatus(p.raised), p.detail),
                              !.log = @ \o <<ExtractCall, ClassifyCall>>
                                        \o (IF p.raised = "UnicodeDecodeError"
                                            THEN <<DecodeCall>> ELSE <<>>)
                                        \o <<RespondCall>>]]
                /\ UNCHANGED running
           ELSE /\ req' = [req EXCEPT ![r] = [@ EXCEPT !.pc = "render_top",
                              !.top_project = p.top_layer_files,
                              !.bottom_project = p.bottom_layer_files,
                              !.out_dir = OUTPUT_DIR,
                              !.log = @ \o <<ExtractCall, ClassifyCall, DecodeCall>>]]
                /\ running' = r
    /\ lastResp' = NoResponse
    /\ UNCHANGED <<OUTPUT_DIR, fs>>
    /\ UNCHANGED <<removed, classifyVars, dimVars, trialVars, sharedVars>>

\* What is known of a `project.parse().render_raster(...)` statement that
\* raised: parse() was called, and parse or render_raster raised
RaisingCalls(name) == <<ParseCall(name), RaisedCall(name)>>

\* Variation of Render: a render that raises is passed over and the handler
\* goes on to its next step
Render_SkipFailed(r, project, name, next_pc) ==
    IF project = <<>>
    THEN /\ req' = [req EXCEPT ![r] = [@ EXCEPT !.pc = next_pc]]
         /\ UNCHANGED <<fs, running>>
    ELSE \/ \E size \in RenderSizes(name) :
              /\ fs' = [fs EXCEPT ![req[r].out_dir] =
                          (name :> [owner |-> r, width |-> size[1], height |-> size[2]]) @@ @]
              /\ req' = [req EXCEPT ![r] = [@ EXCEPT !.pc = next_pc,
                            !.made = (name :> size) @@ @,
                            !.log = @ \o <<ParseCall(name), RenderRasterCall(name)>>]]
              /\ UNCHANGED running
         \/ LET calls == RaisingCalls(name) IN
              /\ req' = [req EXCEPT ![r] = [@ EXCEPT !.pc = next_pc, !.log = @ \o calls]]
              /\ UNCHANGED <<fs, running>>

\* Variation of Render: a render statement that raised is run a second time
\* before the handler gives up
Render_RetryOnce(r, project, name, next_pc) ==
    IF project = <<>>
    THEN /\ req' = [req EXCEPT ![r] = [@ EXCEPT !.pc = next_pc]]
         /\ UNCHANGED <<fs, running>>
    ELSE \/ \E size \in RenderSizes(name) :
              /\ fs' = [fs EXCEPT ![req[r].out_dir] =
                          (name :> [owner |-> r, width |-> size[1], height |-> size[2]]) @@ @]
              /\ req' = [req EXCEPT ![r] = [@ EXCEPT !.pc = next_pc,
                            !.made = (name :> size) @@ @,
                            !.log = @ \o <<ParseCall(name), RenderRasterCall(name)>>]]
              /\ UNCHANGED running
         \/ LET calls == RaisingCalls(name) IN
              /\ IF \E i \in 1..Len(req[r].log) : req[r].log[i] = ParseCall(name)
                 THEN /\ req' = [req EXCEPT ![r] = [@ EXCEPT !.pc = "done",
                                    !.resp = HTTPException(ExceptStatus("RenderError"),
                                                           "RenderError"),
                                    !.log = @ \o calls \o <<RespondCall>>]]
                      /\ running' = 0
                 ELSE /\ req' = [req EXCEPT ![r] = [@ EXCEPT !.log = @ \o calls]]
                      /\ UNCHANGED running
              /\ UNCHANGED fs

\* project.parse().render_raster(path, dpmm=DPMM) for a non-None project:
\* either the engine writes one image of some size at out_dir/name
\* (replacing a file of that name), or one of the two calls raises without
\* writing and the handler answers through `except Exception`.
Render(r, project, name, next_pc) ==
    IF project = <<>>
    THEN /\ req' = [req EXCEPT ![r] = [@ EXCEPT !.pc = next_pc]]
         /\ UNCHANGED <<fs, running>>
    ELSE \/ \E size \in RenderSizes(name) :
              /\ fs' = [fs EXCEPT ![req[r].out_dir] =
                          (name :> [owner |-> r, width |-> size[1], height |-> size[2]]) @@ @]
              /\ req' = [req EXCEPT ![r] = [@ EXCEPT !.pc = next_pc,
                            !.made = (name :> size) @@ @,
                            !.log = @ \o <<ParseCall(name), RenderRasterCall(name)>>]]
              /\ UNCHANGED running
         \/ LET calls == RaisingCalls(name) IN
              /\ req' = [req EXCEPT ![r] = [@ EXCEPT !.pc = "done",
                            !.resp = HTTPException(ExceptStatus("RenderError"), "RenderError"),
                            !.log = @ \o calls \o <<RespondCall>>]]
              /\ running' = 0
              /\ UNCHANGED fs

\* Variation of RenderTop: the top render job is left out
RenderTop_Omitted(r) ==
    /\ running = r
    /\ req[r].pc = "render_top"
    /\ req' = [req EXCEPT ![r] = [@ EXCEPT !.pc = "render_bottom"]]
    /\ lastResp' = NoResponse
    /\ UNCHANGED <<OUTPUT_DIR, fs, running>>
    /\ UNCHANGED <<removed, classifyVars, dimVars, trialVars, sharedVars>>

\* src/main.py 77-78
RenderTop(r) ==
    /\ running = r
    /\ req[r].pc = "render_top"
    /\ Render(r, req[r].top_project, output_top_png, "render_bottom")
    /\ lastResp' = NoResponse
    /\ UNCHANGED OUTPUT_DIR
    /\ UNCHANGED <<removed, classifyVars, dimVars, trialVars, sharedVars>>

\* src/main.py 79-80
RenderBottom(r) ==
    /\ running = r
    /\ req[r].pc = "render_bottom"
    /\ Render(r, req[r].bottom_project, output_bottom_png, "measure")
    /\ lastResp' = NoResponse
    /\ UNCHANGED OUTPUT_DIR
    /\ UNCHANGED <<removed, classifyVars, dimVars, trialVars, sharedVars>>

\* Variation of Respond: the handler gives up the event loop without
\* answering
Respond_NoAnswer(r) ==
    /\ running = r
    /\ req[r].pc = "measure"
    /\ running' = 0
    /\ lastResp' = NoResponse
    /\ UNCHANGED <<OUTPUT_DIR, fs, req>>
    /\ UNCHANGED <<removed, classifyVars, dimVars, trialVars, sharedVars>>

\* src/main.py 83-125: the os.path.exists checks, the measurements and the
\* JSON response.
Respond(r) ==
    /\ running = r
    /\ req[r].pc = "measure"
    /\ LET available_images ==
               Measure(fs[req[r].out_dir], <<output_top_png, output_bottom_png>>)
       IN  req' = [req EXCEPT ![r] = [@ EXCEPT !.pc = "done",
                      !.resp = Response(200, OkMsg, available_images, TRUE,
                                        AverageDimensions(available_images), NoImage),
                      !.log = @ \o [i \in 1..Len(available_images) |->
                                       MeasureCall(available_images[i].name)]
                                \o <<RespondCall>>]]
    /\ running' = 0
    /\ lastResp' = NoResponse
    /\ UNCHANGED <<OUTPUT_DIR, fs>>
    /\ UNCHANGED <<removed, classifyVars, dimVars, trialVars, sharedVars>>

\* A client requests GET /images/{image_name}
GetImage(image_name) ==
    /\ running = 0
    /\ lastResp' = get_image(image_name)
    /\ UNCHANGED <<OUTPUT_DIR, fs, req, running>>
    /\ UNCHANGED <<removed, classifyVars, dimVars, trialVars, sharedVars>>

\* A client requests GET /list-images/
ListImages ==
    /\ running = 0
    /\ \E listing \in CurrentListings : lastResp' = list_images(listing)
    /\ UNCHANGED <<OUTPUT_DIR, fs, req, running>>
    /\ UNCHANGED <<removed, classifyVars, dimVars, trialVars, sharedVars>>

StoreNext ==
    \/ \E r \in Req, u \in Uploads : ConvertStart(r, u)
    \/ \E r \in Req : ReadReturn(r)
    \/ \E r \in Req : RenderTop(r)
    \/ \E r \in Req : RenderBottom(r)
    \/ \E r \in Req : Respond(r)
    \/ \E image_name \in ImageNames : GetImage(image_name)
    \/ ListImages

\* The state of src/api/mainn.py once the module is loaded: TEMP_DIR has
\* been made (mainn.py 17-19) and no request has been received.
Get == 1..MaxGet

\* The locals of one get_image call.  pc is its position: "idle" (not yet
\* received), "send" (the handler has returned its FileResponse, which is
\* being sent), "done".  found records that the existence check passed,
\* tasks the number of add_task calls the handler made and started how many
\* of these tasks the server took over to run once the response was sent.
IdleGet ==
    [pc |-> "idle", image_name |-> <<>>, found |-> FALSE, resp |-> NoResponse,
     tasks |-> 0, started |-> 0]

SharedInit ==
    /\ store = <<>>
    /\ clock = 0
    /\ gets = [g \in Get |-> IdleGet]
    /\ sweeps = 0

Init ==
    /\ StoreInit
    /\ SharedInit
    /\ archive = <<>> /\ groups = <<>>
    /\ pixels = 0 /\ mm = <<>>
    /\ trial = <<>>

Next == StoreNext

Spec == Init /\ [][Next]_vars

\* A step of a conversion that has been received: its awaited archive read
\* returns, or its handler, holding the event loop, goes on (a render call
\* returns or raises, the response is built).
ConvertStep ==
    \E r \in Req : ReadReturn(r) \/ RenderTop(r) \/ RenderBottom(r) \/ Respond(r)

\* src/main.py under the scheduling of the event loop: while a conversion
\* can take a step, the loop does not serve get_image and list_images
\* forever without some conversion taking one.
SpecFair == Init /\ [][Next]_vars /\ WF_vars(ConvertStep)

----------------------------------------------------------------------------
(* src/main.py with its shutdown hook *)

\* Value of `running` once the application has shut down: no handler runs
\* any more
Closed == MaxReq + 1

\* src/main.py 180-184: the shutdown event handler.  The server runs it
\* after the requests it was serving have ended.
cleanup ==
    /\ running = 0
    /\ \A r \in Req : ~InFlight(r)
    /\ IF OUTPUT_DIR # 0
       THEN /\ fs' = [fs EXCEPT ![OUTPUT_DIR] = <<>>]
            /\ removed' = removed \cup {OUTPUT_DIR}
       ELSE UNCHANGED <<fs, removed>>
    /\ running' = Closed
    /\ lastResp' = NoResponse
    /\ UNCHANGED <<OUTPUT_DIR, req>>
    /\ UNCHANGED <<classifyVars, dimVars, trialVars, sharedVars>>

ShutdownNext ==
    \/ \E r \in Req, u \in Uploads : ConvertStart(r, u)
    \/ \E r \in Req : ReadReturn(r)
    \/ \E r \in Req : RenderTop(r)
    \/ \E r \in Req : RenderBottom(r)
    \/ \E r \in Req : Respond(r)
    \/ \E image_name \in ImageNames : GetImage(image_name)
    \/ ListImages
    \/ cleanup

SpecShutdown == Init /\ [][ShutdownNext]_vars

----------------------------------------------------------------------------
(* The shared-store variant, src/api/mainn.py: every conversion writes      *)
(* its images into the one directory TEMP_DIR under names that carry a      *)
(* fresh id, and the requests schedule cleanup_old_files as a background    *)
(* task, which runs after the response has been sent.                       *)

\* Seconds by which the clock is seen to advance between two steps: they
\* make file ages of 0, of exactly 3600 and of 3601 seconds occur.
ClockSteps == { 3600, 3601 }

\* Pixel size the rendering engine produces in this variant's runs
SharedRenderSize == <<100, 200>>

\* Uploads received by this variant
SharedUploads ==
    { Upload(a_gbr, FALSE, <<>>, {}),
      Upload(a_zip, TRUE, <<Top_gbr, bot_gbr>>, {}) }

output_top_ == <<"o", "u", "t", "p", "u", "t", "_", "t", "o", "p", "_">>
output_bottom_ == <<"o", "u", "t", "p", "u", "t", "_", "b", "o", "t", "t", "o", "m", "_">>
api_images_ == <<"/", "a", "p", "i", "/", "i", "m", "a", "g", "e", "s", "/">>

\* Variation of unique_id: every call draws the same id
unique_id_Same(r) == <<"1">>

\* src/api/mainn.py 79-81: unique_id = str(uuid.uuid4()) and the two output
\* names.  The id drawn by request r is written as the digit r: ids drawn by
\* different calls differ.
unique_id(r) == <<ToString(r)>>
output_top(r) == output_top_ \o unique_id(r) \o png_suffix
output_bottom(r) == output_bottom_ \o unique_id(r) \o png_suffix

\* Names a client may ask this variant's get_image for
SharedImageNames == { output_top(r) : r \in Req }

RuntimeErrorMsg == "File at path does not exist."

\* Variation of OneHourOld: a file of exactly 3600 seconds counts as old
OneHourOld_Inclusive(st_mtime, current_time) == st_mtime <= current_time - 3600

\* src/api/mainn.py 61: os.stat(file_path).st_mtime < current_time - 3600
OneHourOld(st_mtime, current_time) == st_mtime < current_time - 3600

\* A response that hands its cleanup task over to run is sent while fewer
\* than MaxSweeps tasks wait
HasFreeSweep == sweeps < MaxSweeps

\* What a render call of a side does: nothing for an empty group (None),
\* else it writes an image or raises
RenderOutcomes(project) ==
    IF project = <<>> THEN { "none" } ELSE { "image", "raise" }

\* The file a render call writes at time `clock`
Rendered(r) ==
    [owner |-> r, width |-> SharedRenderSize[1], height |-> SharedRenderSize[2],
     st_mtime |-> clock]

\* src/api/mainn.py 95-108: one entry per output file that exists
SharedMeasure(dir, names) ==
    LET measured == Measure(dir, names)
    IN  [i \in 1..Len(measured) |->
            [name |-> measured[i].name, width |-> measured[i].width,
             height |-> measured[i].height, url |-> api_images_ \o measured[i].name]]

\* src/api/mainn.py 64-72: the extension check, the TemporaryDirectory is
\* entered (no output is written into it), then the call suspends at
\* `await file.read()`.
SharedConvertStart(r, u) ==
    /\ req[r].pc = "idle"
    /\ \A q \in Req : q < r => req[q].pc # "idle"
    /\ IF ~EndsWith(u.filename, zip_suffix)
       THEN /\ req' = [req EXCEPT ![r] = [@ EXCEPT !.pc = "done", !.file = u,
                                                   !.resp = HTTPException(400, ZipMsg)]]
            /\ UNCHANGED fs
       ELSE /\ fs' = Append(fs, <<>>)
            /\ req' = [req EXCEPT ![r] = [@ EXCEPT !.pc = "await_read", !.file = u,
                                                   !.out_dir = Len(fs) + 1]]
    /\ lastResp' = NoResponse
    /\ UNCHANGED <<OUTPUT_DIR, running, removed, classifyVars, dimVars, trialVars, sharedVars>>

\* src/api/mainn.py 72-129: the read returns and the handler runs to its
\* response without awaiting: it opens and classifies the archive, draws the
\* id, renders each non-empty side into TEMP_DIR, measures the files that
\* exist, schedules cleanup_old_files and answers 200; an exception leaves
\* through the except clauses, with no task scheduled.  Leaving the `with`
\* block deletes the temporary directory.
SharedConvertFinish(r) ==
    /\ req[r].pc = "await_read"
    /\ LET u == req[r].file
           p == process_gerber_files(u.namelist, u.undecodable)
           Fail(exc, detail) ==
               /\ req' = [req EXCEPT ![r] = [@ EXCEPT !.pc = "done",
                             !.resp = HTTPException(ExceptStatus(exc), detail)]]
               /\ UNCHANGED sweeps
       IN  IF ~u.valid_zip
           THEN Fail("BadZipFile", "BadZipFile") /\ UNCHANGED store
           ELSE IF p.raised # ""
           THEN Fail(p.raised, p.detail) /\ UNCHANGED store
           ELSE \E top \in RenderOutcomes(p.top_layer_files),
                   bottom \in RenderOutcomes(p.bottom_layer_files) :
                    LET top_file == IF top = "image"
                                    THEN (output_top(r) :> Rendered(r)) ELSE <<>>
                        bottom_file == IF bottom = "image"
                                       THEN (output_bottom(r) :> Rendered(r)) ELSE <<>>
                    IN  IF top = "raise"
                        THEN Fail("RenderError", "RenderError") /\ UNCHANGED store
                        ELSE IF bottom = "raise"
                        THEN Fail("RenderError", "RenderError") /\ store' = top_file @@ store
                        ELSE /\ HasFreeSweep
                             /\ store' = bottom_file @@ top_file @@ store
                             /\ LET available_images ==
                                        SharedMeasure(store', <<output_top(r), output_bottom(r)>>)
                                IN  req' = [req EXCEPT ![r] = [@ EXCEPT !.pc = "done",
                                               !.top_project = p.top_layer_files,
                                               !.bottom_project = p.bottom_layer_files,
                                               !.made = [n \in DOMAIN (bottom_file @@ top_file) |->
                                                            SharedRenderSize],
                                               !.resp = Response(200, OkMsg, available_images, TRUE,
                                                            AverageDimensions(available_images),
                                                            NoImage)]]
                             /\ sweeps' = sweeps + 1
    /\ removed' = removed \cup { req[r].out_dir }
    /\ lastResp' = NoResponse
    /\ UNCHANGED <<OUTPUT_DIR, fs, running, classifyVars, dimVars, trialVars, clock, gets>>

\* src/api/mainn.py 131-140: the handler of get_image.  A missing name is
\* answered 404; for an existing one the handler adds the cleanup task and
\* returns a FileResponse holding the path: the file is not opened here.
SharedGetImage(g, image_name) ==
    /\ gets[g].pc = "idle"
    /\ \A h \in Get : h < g => gets[h].pc # "idle"
    /\ IF image_name \notin DOMAIN store
       THEN gets' = [gets EXCEPT ![g] = [@ EXCEPT !.pc = "done", !.image_name = image_name,
                                                  !.resp = HTTPException(404, NotFoundMsg)]]
       ELSE gets' = [gets EXCEPT ![g] = [@ EXCEPT !.pc = "send", !.image_name = image_name,
                                                  !.found = TRUE, !.tasks = 1]]
    /\ lastResp' = NoResponse
    /\ UNCHANGED <<storeVars_but_lastResp, classifyVars, dimVars, trialVars, store, clock, sweeps>>

\* The FileResponse is sent: the server stats and opens the path and streams
\* the file, after which the request's background task may run.  If the
\* path no longer exists the response fails with a RuntimeError, the client
\* gets a 500 answer and no image, and the task is dropped.
SendFileResponse(g) ==
    /\ gets[g].pc = "send"
    /\ IF gets[g].image_name \in DOMAIN store
       THEN /\ HasFreeSweep
            /\ gets' = [gets EXCEPT ![g] = [@ EXCEPT !.pc = "done",
                           !.resp = Response(200, "", <<>>, FALSE, NoAverage,
                                             store[gets[g].image_name]),
                           !.started = @ + 1]]
            /\ sweeps' = sweeps + 1
       ELSE /\ gets' = [gets EXCEPT ![g] = [@ EXCEPT !.pc = "done",
                           !.resp = HTTPException(500, RuntimeErrorMsg)]]
            /\ UNCHANGED sweeps
    /\ lastResp' = NoResponse
    /\ UNCHANGED <<storeVars_but_lastResp, classifyVars, dimVars, trialVars, store, clock>>

\* src/api/mainn.py 142-155: what list_images answers.  The order of
\* os.listdir is not specified: available_images is held as the set of its
\* entries.
shared_list_images ==
    Response(200, "",
             { [name |-> filename, url |-> api_images_ \o filename] :
                   filename \in { f \in DOMAIN store : EndsWith(f, png_suffix) } },
             FALSE, NoAverage, NoImage)

\* Variation of SharedListImages: the handler answers without adding the
\* cleanup task
SharedListImages_NoTask ==
    /\ HasFreeSweep
    /\ lastResp' = shared_list_images
    /\ UNCHANGED sweeps
    /\ UNCHANGED <<storeVars_but_lastResp, classifyVars, dimVars, trialVars, store, clock, gets>>

\* A client requests GET /api/list-images: the handler answers and adds the
\* cleanup task
SharedListImages ==
    /\ HasFreeSweep
    /\ lastResp' = shared_list_images
    /\ sweeps' = sweeps + 1
    /\ UNCHANGED <<storeVars_but_lastResp, classifyVars, dimVars, trialVars, store, clock, gets>>

\* src/api/mainn.py 56-62: a task that waited runs.  current_time =
\* time.time(); every name of os.listdir(TEMP_DIR) that is a file and one
\* hour old is removed.
cleanup_old_files ==
    /\ sweeps > 0
    /\ LET current_time == clock
       IN  store' = [f \in { filename \in DOMAIN store :
                                ~OneHourOld(store[filename].st_mtime, current_time) }
                        |-> store[f]]
    /\ sweeps' = sweeps - 1
    /\ lastResp' = NoResponse
    /\ UNCHANGED <<storeVars_but_lastResp, classifyVars, dimVars, trialVars, clock, gets>>

\* Time passes
Tick(seconds) ==
    /\ clock + seconds <= MaxClock
    /\ clock' = clock + seconds
    /\ lastResp' = NoResponse
    /\ UNCHANGED <<storeVars_but_lastResp, classifyVars, dimVars, trialVars, store, gets, sweeps>>

SharedNext ==
    \/ \E r \in Req, u \in SharedUploads : SharedConvertStart(r, u)
    \/ \E r \in Req : SharedConvertFinish(r)
    \/ \E g \in Get, image_name \in SharedImageNames : SharedGetImage(g, image_name)
    \/ \E g \in Get : SendFileResponse(g)
    \/ SharedListImages
    \/ cleanup_old_files
    \/ \E seconds \in ClockSteps : Tick(seconds)

SpecShared == Init /\ [][SharedNext]_vars

----------------------------------------------------------------------------
(* The per-request-directory variant, src/api/main.py: convert_gerber       *)
(* renders into a tempfile.TemporaryDirectory of its own, which is deleted  *)
(* when the handler leaves the `with` block.  The variant has no get_image  *)
(* and no list_images.                                                      *)

\* Variation of TemporaryDirectory_exit: the directory is kept, as one made
\* by tempfile.mkdtemp is
TemporaryDirectory_exit_Keep(temp_dir) == UNCHANGED <<fs, removed>>

\* src/api/main.py 57: leaving `with tempfile.TemporaryDirectory() as
\* temp_dir`, by return or by exception, deletes the directory and its files
TemporaryDirectory_exit(temp_dir) ==
    /\ fs' = [fs EXCEPT ![temp_dir] = <<>>]
    /\ removed' = removed \cup { temp_dir }

\* src/api/main.py 52-60: the extension check, the temporary directory is
\* made, then the call suspends at `await file.read()`.
PerRequestConvertStart(r, u) ==
    /\ running = 0
    /\ req[r].pc = "idle"
    /\ \A q \in Req : q < r => req[q].pc # "idle"
    /\ IF ~EndsWith(u.filename, zip_suffix)
       THEN /\ req' = [req EXCEPT ![r] = [@ EXCEPT !.pc = "done", !.file = u,
                                                   !.resp = HTTPException(400, ZipMsg),
                                                   !.log = <<ValidateCall, RespondCall>>]]
            /\ UNCHANGED fs
       ELSE /\ fs' = Append(fs, <<>>)
            /\ req' = [req EXCEPT ![r] = [@ EXCEPT !.pc = "await_read", !.file = u,
                                                   !.out_dir = Len(fs) + 1,
                                                   !.log = <<ValidateCall>>]]
    /\ UNCHANGED <<OUTPUT_DIR, running, removed, lastResp, classifyVars, dimVars, trialVars, sharedVars>>

\* src/api/main.py 60-68: the read returns, the archive is opened and
\* classified and the output paths are joined with temp_dir.  An exception
\* is answered by the except clauses and leaves the `with` block.
PerRequestReadReturn(r) ==
    /\ running = 0
    /\ req[r].pc = "await_read"
    /\ LET u == req[r].file
           p == process_gerber_files(u.namelist, u.undecodable)
       IN  IF ~u.valid_zip
           THEN /\ req' = [req EXCEPT ![r] = [@ EXCEPT !.pc = "done",
                              !.resp = HTTPException(ExceptStatus("BadZipFile"), "BadZipFile"),
                              !.log = @ \o <<ExtractCall, RespondCall>>]]
                /\ TemporaryDirectory_exit(req[r].out_dir)
                /\ UNCHANGED running
           ELSE IF p.raised # ""
           THEN /\ req' = [req EXCEPT ![r] = [@ EXCEPT !.pc = "done",
                              !.resp = HTTPException(ExceptStatus(p.raised), p.detail),
                              !.log = @ \o <<ExtractCall, ClassifyCall>>
                                        \o (IF p.raised = "UnicodeDecodeError"
                                            THEN <<DecodeCall>> ELSE <<>>)
                                        \o <<RespondCall>>]]
                /\ TemporaryDirectory_exit(req[r].out_dir)
                /\ UNCHANGED running
           ELSE /\ req' = [req EXCEPT ![r] = [@ EXCEPT !.pc = "render_top",
                              !.top_project = p.top_layer_files,
                              !.bottom_project = p.bottom_layer_files,
                              !.log = @ \o <<ExtractCall, ClassifyCall, DecodeCall>>]]
                /\ running' = r
                /\ UNCHANGED <<fs, removed>>
    /\ UNCHANGED <<OUTPUT_DIR, lastResp, classifyVars, dimVars, trialVars, sharedVars>>

\* project.parse().render_raster(path, dpmm=DPMM) for a non-None project:
\* the engine writes one image at temp_dir/name, or it raises without
\* writing, the handler answers through `except Exception` and leaves the
\* `with` block.
PerRequestRender(r, project, name, next_pc) ==
    IF project = <<>>
    THEN /\ req' = [req EXCEPT ![r] = [@ EXCEPT !.pc = next_pc]]
         /\ UNCHANGED <<fs, removed, running>>
    ELSE \/ \E size \in RenderSizes(name) :
              /\ fs' = [fs EXCEPT ![req[r].out_dir] =
                          (name :> [owner |-> r, width |-> size[1], height |-> size[2]]) @@ @]
              /\ req' = [req EXCEPT ![r] = [@ EXCEPT !.pc = next_pc,
                            !.made = (name :> size) @@ @,
                            !.log = @ \o <<ParseCall(name), RenderRasterCall(name)>>]]
              /\ UNCHANGED <<removed, running>>
         \/ LET calls == RaisingCalls(name) IN
              /\ req' = [req EXCEPT ![r] = [@ EXCEPT !.pc = "done",
                            !.resp = HTTPException(ExceptStatus("RenderError"), "RenderError"),
                            !.log = @ \o calls \o <<RespondCall>>]]
              /\ TemporaryDirectory_exit(req[r].out_dir)
              /\ running' = 0

\* src/api/main.py 71-72
PerRequestRenderTop(r) ==
    /\ running = r
    /\ req[r].pc = "render_top"
    /\ PerRequestRender(r, req[r].top_project, output_top_png, "render_bottom")
    /\ UNCHANGED <<OUTPUT_DIR, lastResp, classifyVars, dimVars, trialVars, sharedVars>>

\* src/api/main.py 73-74
PerRequestRenderBottom(r) ==
    /\ running = r
    /\ req[r].pc = "render_bottom"
    /\ PerRequestRender(r, req[r].bottom_project, output_bottom_png, "measure")
    /\ UNCHANGED <<OUTPUT_DIR, lastResp, classifyVars, dimVars, trialVars, sharedVars>>

\* Variation of PerRequestRespond: the handler looks for the output files
\* in the first temporary directory the process made, not in its own
PerRequestRespond_FirstDir(r) ==
    /\ running = r
    /\ req[r].pc = "measure"
    /\ LET available_images ==
               Measure(fs[1], <<output_top_png, output_bottom_png>>)
       IN  req' = [req EXCEPT ![r] = [@ EXCEPT !.pc = "done",
                      !.resp = Response(200, OkMsg, available_images, TRUE,
                                        AverageDimensions(available_images), NoImage),
                      !.log = @ \o [i \in 1..Len(available_images) |->
                                       MeasureCall(available_images[i].name)]
                                \o <<RespondCall>>]]
    /\ TemporaryDirectory_exit(req[r].out_dir)
    /\ running' = 0
    /\ UNCHANGED <<OUTPUT_DIR, lastResp, classifyVars, dimVars, trialVars, sharedVars>>

\* src/api/main.py 76-107: the os.path.exists checks, the measurements and
\* the JSON response; returning it leaves the `with` block.
PerRequestRespond(r) ==
    /\ running = r
    /\ req[r].pc = "measure"
    /\ LET available_images ==
               Measure(fs[req[r].out_dir], <<output_top_png, output_bottom_png>>)
       IN  req' = [req EXCEPT ![r] = [@ EXCEPT !.pc = "done",
                      !.resp = Response(200, OkMsg, available_images, TRUE,
                                        AverageDimensions(available_images), NoImage),
                      !.log = @ \o [i \in 1..Len(available_images) |->
                                       MeasureCall(available_images[i].name)]
                                \o <<RespondCall>>]]
    /\ TemporaryDirectory_exit(req[r].out_dir)
    /\ running' = 0
    /\ UNCHANGED <<OUTPUT_DIR, lastResp, classifyVars, dimVars, trialVars, sharedVars>>

PerRequestNext ==
    \/ \E r \in Req, u \in Uploads : PerRequestConvertStart(r, u)
    \/ \E r \in Req : PerRequestReadReturn(r)
    \/ \E r \in Req : PerRequestRenderTop(r)
    \/ \E r \in Req : PerRequestRenderBottom(r)
    \/ \E r \in Req : PerRequestRespond(r)

SpecPerRequest == Init /\ [][PerRequestNext]_vars

----------------------------------------------------------------------------
(* process_gerber_files on bounded archives *)

top_gbr == <<"t", "o", "p", ".", "g", "b", "r">>
aTop_gbr == <<"a", "T", "o", "p", ".", "g", "b", "r">>
a_gbr_txt == <<"a", ".", "g", "b", "r", ".", "t", "x", "t">>
gbr == <<"g", "b", "r">>

\* Entry names of the archives SpecClassify enumerates
EntryNames == { Top_gbr, aTop_gbr, bot_gbr, top_gbr, Top_txt, a_gbr_txt, gbr }

Archives == UNION { [1..n -> EntryNames] : n \in 0..MaxEntries }

NotClassified == [raised |-> "pending", detail |-> "", top_layer_files |-> <<>>,
                  bottom_layer_files |-> <<>>, status |-> 0]

ClassifyInit ==
    /\ archive \in Archives
    /\ groups = NotClassified
    /\ pixels = 0 /\ mm = <<>>
    /\ trial = <<>>
    /\ StoreInit
    /\ SharedInit

\* src/main.py 70 and 127-130: convert_gerber calls process_gerber_files on
\* the opened archive; an exception it raises is answered by the handler's
\* except clauses (status 0: no answer yet, the handler goes on to render).
ClassifyArchive ==
    /\ groups = NotClassified
    /\ \E undecodable \in SUBSET { archive[i] : i \in 1..Len(archive) } :
          LET p == process_gerber_files(archive, undecodable)
          IN  groups' = [raised |-> p.raised, detail |-> p.detail,
                         top_layer_files |-> p.top_layer_files,
                         bottom_layer_files |-> p.bottom_layer_files,
                         status |-> IF p.raised # "" THEN ExceptStatus(p.raised) ELSE 0]
    /\ UNCHANGED <<archive, storeVars, dimVars, trialVars, sharedVars>>

ClassifyNext == ClassifyArchive

SpecClassify == ClassifyInit /\ [][ClassifyNext]_vars

----------------------------------------------------------------------------
(* pixels_to_mm of the variants on bounded pixel counts *)

DimInit ==
    /\ pixels \in 0..MaxPixels
    /\ mm = <<>>
    /\ archive = <<>> /\ groups = <<>>
    /\ trial = <<>>
    /\ StoreInit
    /\ SharedInit

\* What each variant reports for an image dimension of `pixels` pixels:
\* whole millimeters in src/main.py (and src/api/main.py, src/api/mainn.py),
\* hundredths of a millimeter in src/tempfiles/apii.py.
MeasurePixels ==
    /\ mm = <<>>
    /\ mm' = [main |-> pixels_to_mm(pixels), tempfiles_100 |-> pixels_to_mm_2dp(pixels)]
    /\ UNCHANGED <<pixels, storeVars, classifyVars, trialVars, sharedVars>>

DimNext == MeasurePixels

SpecDim == DimInit /\ [][DimNext]_vars

----------------------------------------------------------------------------
(* The render statements of src/main.py convert_gerber, run in either order *)

\* What the engine does for a side: it raises, or it writes an image of `size`
RenderResult(raised, size) == [raised |-> raised, size |-> size]

RenderResults ==
    { RenderResult(TRUE, <<0, 0>>),
      RenderResult(FALSE, <<100, 200>>),
      RenderResult(FALSE, <<110, 60>>) }

\* The pairs of groups process_gerber_files may hand to the handler, <<>>
\* modelling None
TrialGroups == { <<>>, <<Top_gbr>> } \X { <<>>, <<bot_gbr>> }

NotRun == [status |-> 0, available_images |-> <<>>, files |-> {}]

\* src/main.py 76-80: the `if project: project.parse().render_raster(...)`
\* statements run in the order `order` over the files of the fresh output
\* directory `dir`; a statement that raises ends the run.
RECURSIVE RunRenders(_, _, _, _)
RunRenders(order, project, result, dir) ==
    IF order = <<>> THEN [raised |-> FALSE, dir |-> dir]
    ELSE LET name == Head(order)
         IN  IF project[name] = <<>>
             THEN RunRenders(Tail(order), project, result, dir)
             ELSE IF result[name].raised
             THEN [raised |-> TRUE, dir |-> dir]
             ELSE RunRenders(Tail(order), project, result,
                             (name :> [owner |-> 1, width |-> result[name].size[1],
                                       height |-> result[name].size[2]]) @@ dir)

\* src/main.py 70-130 for groups and render results given: the answer of
\* the handler and the files its output directory is left with, the render
\* statements being run in the order `order`
ConvertOutcome(order, project, result) ==
    IF \A name \in DOMAIN project : project[name] = <<>>
    THEN [status |-> ExceptStatus("ValueError"), available_images |-> <<>>, files |-> {}]
    ELSE LET run == RunRenders(order, project, result, <<>>)
         IN  IF run.raised
             THEN [status |-> ExceptStatus("RenderError"), available_images |-> <<>>,
                   files |-> DOMAIN run.dir]
             ELSE [status |-> 200,
                   available_images |-> Measure(run.dir, <<output_top_png, output_bottom_png>>),
                   files |-> DOMAIN run.dir]

OrderInit ==
    /\ \E g \in TrialGroups, top \in RenderResults, bottom \in RenderResults :
           trial = [project |-> (output_top_png :> g[1]) @@ (output_bottom_png :> g[2]),
                    result |-> (output_top_png :> top) @@ (output_bottom_png :> bottom),
                    top_first |-> NotRun, bottom_first |-> NotRun]
    /\ archive = <<>> /\ groups = <<>>
    /\ pixels = 0 /\ mm = <<>>
    /\ StoreInit
    /\ SharedInit

\* The handler as written: the top statement (main.py 77-78) before the
\* bottom statement (main.py 79-80)
ConvertTopFirst ==
    /\ trial.top_first = NotRun
    /\ trial' = [trial EXCEPT !.top_first =
                     ConvertOutcome(<<output_top_png, output_bottom_png>>,
                                    trial.project, trial.result)]
    /\ UNCHANGED <<storeVars, classifyVars, dimVars, sharedVars>>

\* The handler with the two statements exchanged
ConvertBottomFirst ==
    /\ trial.bottom_first = NotRun
    /\ trial' = [trial EXCEPT !.bottom_first =
                     ConvertOutcome(<<output_bottom_png, output_top_png>>,
                                    trial.project, trial.result)]
    /\ UNCHANGED <<storeVars, classifyVars, dimVars, sharedVars>>

OrderNext == ConvertTopFirst \/ ConvertBottomFirst

SpecOrder == OrderInit /\ [][OrderNext]_vars

----------------------------------------------------------------------------
(* Vocabulary of the properties, stated on characters and integers *)

\* The name ends in the four characters ".gbr"
EndsInGbr(n) ==
    /\ Len(n) >= 4
    /\ n[Len(n) - 3] = "." /\ n[Len(n) - 2] = "g" /\ n[Len(n) - 1] = "b" /\ n[Len(n)] = "r"

\* The name ends in the four characters ".png"
EndsInPng(n) ==
    /\ Len(n) >= 4
    /\ n[Len(n) - 3] = "." /\ n[Len(n) - 2] = "p" /\ n[Len(n) - 1] = "n" /\ n[Len(n)] = "g"

\* The name holds the characters "T", "o", "p" in a row
HasTop(n) == \E i \in 1..(Len(n) - 2) : n[i] = "T" /\ n[i + 1] = "o" /\ n[i + 2] = "p"

\* The name ends in the four characters ".zip"
EndsInZip(n) ==
    /\ Len(n) >= 4
    /\ n[Len(n) - 3] = "." /\ n[Len(n) - 2] = "z" /\ n[Len(n) - 1] = "i" /\ n[Len(n)] = "p"

InSeq(x, s) == \E i \in 1..Len(s) : s[i] = x

\* f[1] + ... + f[n]
RECURSIVE SumTo(_, _)
SumTo(f, n) == IF n = 0 THEN 0 ELSE f[n] + SumTo(f, n - 1)

\* a is total / n rounded to the nearest integer, an exact half going to the
\* even neighbour; 0 when n = 0
IsRoundedMean(a, total, n) ==
    IF n = 0 THEN a = 0
    ELSE LET twice_error == 2 * (n * a - total)
         IN  /\ twice_error \in (0 - n)..n
             /\ (twice_error = n \/ twice_error = 0 - n) => a % 2 = 0

\* The average_dimensions of a response are the rounded means of its entries
AverageMatches(resp) ==
    LET entries == resp.available_images
        n == Len(entries)
    IN  /\ IsRoundedMean(resp.average_dimensions.width,
                         SumTo([i \in 1..n |-> entries[i].width], n), n)
        /\ IsRoundedMean(resp.average_dimensions.height,
                         SumTo([i \in 1..n |-> entries[i].height], n), n)

Succeeded(r) == req[r].pc = "done" /\ req[r].resp.status = 200

ListedNames(resp) == [i \in 1..Len(resp.available_images) |-> resp.available_images[i].name]

\* The request's own archive has a top (bottom) layer entry
OwnTop(r) == \E i \in 1..Len(req[r].file.namelist) :
                 EndsInGbr(req[r].file.namelist[i]) /\ HasTop(req[r].file.namelist[i])
OwnBottom(r) == \E i \in 1..Len(req[r].file.namelist) :
                    EndsInGbr(req[r].file.namelist[i]) /\ ~HasTop(req[r].file.namelist[i])

----------------------------------------------------------------------------
(* Properties *)

\* C1: every image listed in a successful conversion's response was rendered
\* by that conversion from its own layer groups, whatever other conversions
\* overlap with it.  (Violated by src/main.py.)
C1_OwnArtifactsOnly ==
    \A r \in Req : Succeeded(r) =>
        \A i \in 1..Len(req[r].resp.available_images) :
            req[r].resp.available_images[i].name \in DOMAIN req[r].made

\* C2: every image named in a successful conversion's response stays
\* retrievable through get_image, and what is served is the image that
\* conversion rendered, whatever other conversions have started or completed
\* since.  (Violated by src/main.py.)
C2_ArtifactStaysRetrievable ==
    \A r \in Req : Succeeded(r) =>
        \A i \in 1..Len(req[r].resp.available_images) :
            LET got == get_image(req[r].resp.available_images[i].name)
            IN  got.status = 200 /\ got.image.owner = r

\* C3: process_gerber_files partitions the entry names: an entry ending in
\* ".gbr" that contains "Top" is in the top group only, any other entry ending
\* in ".gbr" is in the bottom group only, an entry not ending in ".gbr" is in
\* neither, and the groups hold one element per ".gbr" entry of the archive.
C3_ClassifierPartitions ==
    groups.raised # "pending" =>
        LET top == groups.top_layer_files
            bottom == groups.bottom_layer_files
        IN  /\ \A i \in 1..Len(archive) :
                   LET n == archive[i]
                   IN  /\ (EndsInGbr(n) /\ HasTop(n)) => (InSeq(n, top) /\ ~InSeq(n, bottom))
                       /\ (EndsInGbr(n) /\ ~HasTop(n)) => (InSeq(n, bottom) /\ ~InSeq(n, top))
                       /\ ~EndsInGbr(n) => (~InSeq(n, top) /\ ~InSeq(n, bottom))
            /\ \A j \in 1..Len(top) : InSeq(top[j], archive)
            /\ \A j \in 1..Len(bottom) : InSeq(bottom[j], archive)
            /\ Len(top) + Len(bottom) =
                   Cardinality({ i \in 1..Len(archive) : EndsInGbr(archive[i]) })

\* C3 witness: an archive with a "Top" layer, a layer without "Top" (here the
\* lower-case top.gbr) and an entry that is no layer has been classified.
C3_Witness ==
    /\ groups.raised = ""
    /\ InSeq(aTop_gbr, archive) /\ InSeq(top_gbr, archive) /\ InSeq(Top_txt, archive)
    /\ groups.top_layer_files = <<aTop_gbr>>
    /\ groups.bottom_layer_files = <<top_gbr>>

\* C4: an archive without any entry ending in ".gbr" is answered with status
\* 400 and the no-layers message, whatever else it contains, and
\* process_gerber_files returns normally only with a non-empty group.
C4_NoLayersFound ==
    groups.raised # "pending" =>
        /\ (\A i \in 1..Len(archive) : ~EndsInGbr(archive[i])) =>
               (groups.status = 400 /\ groups.detail = NoLayersMsg)
        /\ groups.raised = "" =>
               (groups.top_layer_files # <<>> \/ groups.bottom_layer_files # <<>>)

\* C4 witness: a non-empty archive none of whose entries is a layer file has
\* been answered.
C4_Witness ==
    /\ groups.raised # "pending"
    /\ Len(archive) >= 2
    /\ InSeq(Top_txt, archive) /\ InSeq(a_gbr_txt, archive)
    /\ \A i \in 1..Len(archive) : ~EndsInGbr(archive[i])
    /\ groups.status = 400

\* C5: every upload that is not a valid zip container is answered with 400
\* before anything is extracted, classified or rendered, whether its filename
\* lacks ".zip" or its bytes do not open as a zip.  (Violated by src/main.py.)
C5_NonZipRejectedWith400 ==
    \A r \in Req :
        (req[r].pc = "done" /\ (~EndsInZip(req[r].file.filename) \/ ~req[r].file.valid_zip)) =>
            /\ req[r].resp.status = 400
            /\ req[r].top_project = <<>> /\ req[r].bottom_project = <<>>
            /\ DOMAIN req[r].made = {}

\* C6: every variant reports, for the same pixel count, the same whole number
\* of millimeters round(p / 40).  (Violated by src/tempfiles/apii.py.)
C6_SameValueInEveryVariant ==
    mm # <<>> =>
        /\ IsRoundedMean(mm.main, pixels, 40)
        /\ mm.tempfiles_100 = 100 * mm.main

\* The case of C7: the conversion has ended and its render jobs wrote a
\* 100 x 200 pixel image for each side.
C7_Case(r) ==
    /\ req[r].pc = "done"
    /\ DOMAIN req[r].made = { output_top_png, output_bottom_png }
    /\ req[r].made[output_top_png] = <<100, 200>>
    /\ req[r].made[output_bottom_png] = <<100, 200>>

C7_Answer(r, width, height) ==
    /\ req[r].resp.status = 200
    /\ req[r].resp.available_images =
           << [name |-> output_top_png, width |-> width, height |-> height],
              [name |-> output_bottom_png, width |-> width, height |-> height] >>
    /\ req[r].resp.average_dimensions = [width |-> width, height |-> height]

\* C7 as stated: two 100 x 200 pixel images are reported as 3 mm x 5 mm each,
\* average 3 mm x 5 mm.
C7_AsStated == \A r \in Req : C7_Case(r) => C7_Answer(r, 3, 5)

\* C7 amended: two 100 x 200 pixel images are reported as 2 mm x 5 mm each,
\* average 2 mm x 5 mm (round(2.5) is 2: a half goes to the even neighbour).
C7_TwoByFive == \A r \in Req : C7_Case(r) => C7_Answer(r, 2, 5)

\* C7 witness: such a conversion has answered.
C7_Witness == \E r \in Req : C7_Case(r) /\ Len(req[r].resp.available_images) = 2

\* C8: the average reported by a convert response and by a list-images
\* response is the rounded mean of the millimeter values listed in the same
\* response, and 0 when the response lists nothing.
C8_AverageIsRoundedMean ==
    /\ \A r \in Req : Succeeded(r) => AverageMatches(req[r].resp)
    /\ lastResp.has_average => AverageMatches(lastResp)
    /\ \A listing \in CurrentListings :
           LET resp == list_images(listing)
           IN  /\ resp.has_average => AverageMatches(resp)
               /\ (OUTPUT_DIR # 0 /\ listing = <<>>) =>
                      (resp.status = 200 /\ resp.has_average
                       /\ resp.average_dimensions = [width |-> 0, height |-> 0])

\* C8 witness: a conversion answered with means that are exact halves
\* (widths 2 and 3, heights 5 and 2), and list-images has just answered over
\* an empty directory.
C8_Witness ==
    /\ \E r \in Req :
           /\ Succeeded(r)
           /\ Len(req[r].resp.available_images) = 2
           /\ req[r].resp.available_images[1].width = 2
           /\ req[r].resp.available_images[2].width = 3
           /\ req[r].resp.available_images[1].height = 5
           /\ req[r].resp.available_images[2].height = 2
    /\ OUTPUT_DIR # 0 /\ DOMAIN fs[OUTPUT_DIR] = {}
    /\ lastResp.status = 200 /\ lastResp.has_average
    /\ lastResp.available_images = <<>>

\* The case of C9: the conversion was handled with no other conversion in
\* flight, got past classification, and no render job failed.
C9_Case(r) ==
    /\ req[r].pc = "done"
    /\ req[r].alone
    /\ req[r].out_dir # 0
    /\ req[r].resp.detail # "RenderError"

C9_Expected(r) ==
    IF OwnTop(r) /\ OwnBottom(r) THEN <<output_top_png, output_bottom_png>>
    ELSE IF OwnTop(r) THEN <<output_top_png>>
    ELSE <<output_bottom_png>>

\* C9: such a conversion succeeds, writes one artifact per non-empty group
\* and no other, and lists exactly those: two for two non-empty groups, one
\* (the non-empty side's) for one.
C9_OneArtifactPerGroup ==
    \A r \in Req : C9_Case(r) =>
        LET expected == C9_Expected(r)
            names == { expected[i] : i \in 1..Len(expected) }
        IN  /\ OwnTop(r) \/ OwnBottom(r)
            /\ req[r].resp.status = 200
            /\ ListedNames(req[r].resp) = expected
            /\ DOMAIN req[r].made = names
            /\ DOMAIN fs[req[r].out_dir] = names
            /\ \A n \in names : fs[req[r].out_dir][n].owner = r

\* C9 witness: a conversion of both sides and a conversion of the top side
\* only have been handled, each alone.
C9_Witness ==
    /\ \E r \in Req : C9_Case(r) /\ OwnTop(r) /\ OwnBottom(r)
                      /\ Len(req[r].resp.available_images) = 2
    /\ \E r \in Req : C9_Case(r) /\ OwnTop(r) /\ ~OwnBottom(r)
                      /\ ListedNames(req[r].resp) = <<output_top_png>>

\* C10: while no conversion has been requested, and whenever the current
\* store holds no artifact, list_images answers 200 with an empty
\* available_images list.
C10_EmptyStoreListsNothing ==
    /\ (\A r \in Req : req[r].pc = "idle") => OUTPUT_DIR = 0
    /\ (OUTPUT_DIR = 0 \/ DOMAIN fs[OUTPUT_DIR] = {}) =>
           \A listing \in CurrentListings :
               /\ list_images(listing).status = 200
               /\ list_images(listing).available_images = <<>>

\* C10 witness: a conversion failed without writing an image, the store is
\* empty, and list-images has just answered.
C10_Witness ==
    /\ \E r \in Req : /\ req[r].pc = "done" /\ req[r].resp.status = 400
                      /\ req[r].out_dir = 0 /\ EndsInZip(req[r].file.filename)
    /\ \A d \in 1..Len(fs) : DOMAIN fs[d] = {}
    /\ OUTPUT_DIR # 0
    /\ lastResp = list_images(<<>>)

\* C11: get_image answers 404 while no conversion has set the output
\* directory, and 404 when the requested name is not a file of the current
\* output directory; it answers 200 only for a name that is a file of the
\* current output directory, and then serves that file.
C11_GetImageCurrentDirOnly ==
    \A image_name \in ImageNames :
        LET got == get_image(image_name)
        IN  /\ got.status \in {200, 404}
            /\ OUTPUT_DIR = 0 => (got.status = 404 /\ got.detail = NoImagesMsg)
            /\ (OUTPUT_DIR # 0 /\ image_name \notin DOMAIN fs[OUTPUT_DIR]) =>
                   (got.status = 404 /\ got.detail = NotFoundMsg)
            /\ got.status = 200 =>
                   /\ OUTPUT_DIR # 0
                   /\ image_name \in DOMAIN fs[OUTPUT_DIR]
                   /\ got.image = fs[OUTPUT_DIR][image_name]

\* C11 witness: get_image has just answered 404 "Image not found" for a name
\* that an earlier directory holds and the current one does not, while the
\* current directory holds the other image.
C11_Witness ==
    /\ OUTPUT_DIR # 0
    /\ DOMAIN fs[OUTPUT_DIR] = { output_top_png }
    /\ \E d \in 1..Len(fs) : output_bottom_png \in DOMAIN fs[d]
    /\ lastResp = HTTPException(404, NotFoundMsg)
    /\ get_image(output_top_png).status = 200

\* C12: once the shutdown hook has run, no directory the process made holds
\* an image written by a conversion, however many conversions were
\* performed.  (Violated by src/main.py.)
C12_NothingLeftAfterShutdown ==
    running = Closed => \A d \in 1..Len(fs) : DOMAIN fs[d] = {}

\* The conversion got past classification and ended with a non-empty group
\* of its archive left without an image of its own: a render job failed.
C13_RenderFailed(r) ==
    /\ req[r].pc = "done"
    /\ req[r].out_dir # 0
    /\ \/ OwnTop(r) /\ output_top_png \notin DOMAIN req[r].made
       \/ OwnBottom(r) /\ output_bottom_png \notin DOMAIN req[r].made

C14_Case(r) ==
    /\ req[r].pc = "done"
    /\ EndsInZip(req[r].file.filename)
    /\ req[r].file.valid_zip
    /\ \E i \in 1..Len(req[r].file.namelist) :
           /\ EndsInGbr(req[r].file.namelist[i])
           /\ req[r].file.namelist[i] \in req[r].file.undecodable

\* C14 as stated: such a conversion is answered 500.
C14_AsStated == \A r \in Req : C14_Case(r) => req[r].resp.status = 500

\* C14 amended: such a conversion fails with status 400 and the decoder's
\* message, before any render job: the entry is not skipped, and the failure
\* is not answered 500.
C14_DecodeFailureIs400 ==
    \A r \in Req : C14_Case(r) =>
        /\ req[r].resp.status = 400
        /\ req[r].resp.detail = DecodeMsg
        /\ req[r].resp.available_images = <<>>
        /\ DOMAIN req[r].made = {}

\* C14 witness: an archive whose top layer decodes and whose bottom layer
\* does not has been answered.
C14_Witness ==
    \E r \in Req :
        /\ C14_Case(r)
        /\ OwnTop(r) /\ OwnBottom(r)
        /\ req[r].file.undecodable = { bot_gbr }
        /\ req[r].resp.status = 400

\* The case of C15: the request uploaded a well-named, well-formed archive
\* none of whose entries is a layer file, so both groups are empty.
C15_Case(r) ==
    /\ req[r].pc # "idle"
    /\ EndsInZip(req[r].file.filename)
    /\ req[r].file.valid_zip
    /\ ~OwnTop(r) /\ ~OwnBottom(r)

\* C15: such a request is never at a render or measure step and never has
\* an image written; once it has left the archive read it is Failed, with
\* status 400 and the no-layers message.
C15_EmptyGroupsFailBeforeRender ==
    \A r \in Req : C15_Case(r) =>
        /\ req[r].pc \in {"await_read", "done"}
        /\ DOMAIN req[r].made = {}
        /\ \A d \in 1..Len(fs) : \A n \in DOMAIN fs[d] : fs[d][n].owner # r
        /\ req[r].pc = "done" =>
               /\ req[r].resp.status = 400
               /\ req[r].resp.detail = NoLayersMsg
               /\ req[r].resp.available_images = <<>>

\* C15 witness: an archive of two entries, neither a layer file, has been
\* answered while another conversion's image is on disk.
C15_Witness ==
    \E r \in Req :
        /\ C15_Case(r)
        /\ Len(req[r].file.namelist) = 2
        /\ req[r].pc = "done"
        /\ req[r].resp.status = 400
        /\ \E d \in 1..Len(fs) : DOMAIN fs[d] # {}

\* C16: a run of cleanup_old_files at time t removes every file of the
\* store whose modification time is more than 3600 seconds before t and
\* leaves every other file as it is; no step removes a file within 3600
\* seconds of its modification time, so an image named in a conversion
\* response is not removed during the hour after it was written.
C16_SweepRemovesOnlyOldFiles ==
    [][ /\ sweeps' = sweeps - 1 =>
               \A f \in DOMAIN store :
                   IF clock - store[f].st_mtime > 3600
                   THEN f \notin DOMAIN store'
                   ELSE f \in DOMAIN store' /\ store'[f] = store[f]
        /\ \A f \in DOMAIN store \ DOMAIN store' : clock - store[f].st_mtime > 3600
        /\ \A r \in Req : Succeeded(r) =>
               \A i \in 1..Len(req[r].resp.available_images) :
                   LET name == req[r].resp.available_images[i].name
                   IN  (name \in DOMAIN store /\ clock - store[name].st_mtime <= 3600) =>
                           name \in DOMAIN store'
      ]_vars

\* C16 witness: every scheduled run has ended; the images of a conversion
\* that were 3601 seconds old are gone, and the images a later conversion
\* wrote before the run it scheduled are in place.
C16_Witness ==
    /\ clock = 3601
    /\ sweeps = 0
    /\ \E r \in Req :
           /\ Succeeded(r)
           /\ Len(req[r].resp.available_images) = 2
           /\ \A i \in 1..2 : req[r].resp.available_images[i].name \notin DOMAIN store
    /\ \E r \in Req :
           /\ Succeeded(r)
           /\ \A i \in 1..2 :
                  /\ req[r].resp.available_images[i].name \in DOMAIN store
                  /\ store[req[r].resp.available_images[i].name].st_mtime = 3601

\* C17: a get_image request that found its image at the existence check
\* delivers that image, whatever a sweep does before the response is sent.
\* (Violated by src/api/mainn.py.)
C17_FoundImageIsDelivered ==
    \A g \in Get :
        (gets[g].pc = "done" /\ gets[g].found) =>
            /\ gets[g].resp.status = 200
            /\ gets[g].resp.image.owner # 0

\* C18: in the per-request-directory variant, once a conversion has ended,
\* by success or by any failure after the extension check, its temporary
\* directory has been deleted and holds none of the images the request
\* wrote; an image on disk belongs to a request that is still in flight.
C18_NoArtifactOutlivesItsRequest ==
    /\ \A r \in Req :
           (req[r].pc = "done" /\ EndsInZip(req[r].file.filename)) =>
               /\ req[r].out_dir \in removed
               /\ DOMAIN fs[req[r].out_dir] = {}
    /\ \A d \in 1..Len(fs) : \A n \in DOMAIN fs[d] :
           /\ InFlight(fs[d][n].owner)
           /\ req[fs[d][n].owner].out_dir = d

\* C18 witness: a conversion that wrote both images and succeeded and a
\* conversion that wrote its top image and failed on the bottom one have
\* ended, and no directory holds a file.
C18_Witness ==
    /\ \E r \in Req :
           /\ Succeeded(r)
           /\ DOMAIN req[r].made = { output_top_png, output_bottom_png }
    /\ \E r \in Req :
           /\ req[r].pc = "done" /\ req[r].resp.status = 500
           /\ DOMAIN req[r].made = { output_top_png }
    /\ \A d \in 1..Len(fs) : DOMAIN fs[d] = {} /\ d \in removed

\* The request is in exactly one terminal state: Succeeded, a 200 response
\* with the result, or Failed, a 400 or 500 response with a detail and no
\* result.
C19_Terminal(r) ==
    /\ req[r].pc = "done"
    /\ req[r].resp.status \in {200, 400, 500}
    /\ req[r].resp.status = 200 =>
           (req[r].resp.detail = OkMsg /\ req[r].resp.has_average)
    /\ req[r].resp.status \in {400, 500} =>
           /\ req[r].resp.detail \notin {"", OkMsg}
           /\ req[r].resp.available_images = <<>>
           /\ ~req[r].resp.has_average

\* C19: every conversion request that has been received eventually is in
\* one terminal state, Succeeded or Failed and not both, and once answered
\* its answer does not change: from some point on every received request
\* is in its terminal state.
C19_EveryRequestTerminates ==
    /\ <>[](\A r \in Req : req[r].pc = "idle" \/ C19_Terminal(r))
    /\ [](\A r \in Req : req[r].pc = "done" => C19_Terminal(r))
    /\ [][\A r \in Req : req[r].pc = "done" => req'[r] = req[r]]_vars

\* C19 witness: every request has been answered, one with 200 after its
\* peer had held the event loop, one with 500, and both were in flight at
\* the same time.
C19_Witness ==
    /\ \A r \in Req : C19_Terminal(r)
    /\ \E r \in Req : req[r].resp.status = 200 /\ ~req[r].alone
    /\ \E r \in Req : req[r].resp.status = 500 /\ ~req[r].alone

\* C20: a list_images response has exactly one entry for each ".png" file
\* of the store at the time of the call, and each entry carries the width
\* and height in millimeters that pixels_to_mm derives from the stored
\* image's pixel size.  (Violated by src/api/mainn.py.)
C20_ListedEntriesCarryDimensions ==
    LET entries == shared_list_images.available_images
    IN  /\ { e.name : e \in entries } = { f \in DOMAIN store : EndsInPng(f) }
        /\ Cardinality(entries) = Cardinality({ f \in DOMAIN store : EndsInPng(f) })
        /\ \A e \in entries :
               /\ {"width", "height"} \subseteq DOMAIN e
               /\ e.width = pixels_to_mm(store[e.name].width)
               /\ e.height = pixels_to_mm(store[e.name].height)

\* Rank of a call in the order validate, extract, classify (with the
\* decoding of the entries), render, measure, respond
C21_Rank(call) ==
    CASE call.step = "validate" -> 1
      [] call.step = "extract" -> 2
      [] call.step = "classify" -> 3
      [] call.step = "decode" -> 4
      [] call.step \in {"parse", "render_raster", "raise"} -> 5
      [] call.step = "measure" -> 6
      [] OTHER -> 7

\* The output names of the non-empty groups of the request's archive
C21_Sides(r) ==
    (IF OwnTop(r) THEN { output_top_png } ELSE {})
        \cup (IF OwnBottom(r) THEN { output_bottom_png } ELSE {})

\* The log holds the call `step` of side `name` before position i
C21_CalledBefore(log, step, name, i) ==
    \E j \in 1..(i - 1) : log[j].step = step /\ log[j].name = name

\* C21 as stated: when a rasterization starts, every recognized entry of
\* both groups has been parsed.
C21_AsStated ==
    \A r \in Req : \A i \in 1..Len(req[r].log) :
        req[r].log[i].step = "render_raster" =>
            \A name \in C21_Sides(r) : C21_CalledBefore(req[r].log, "parse", name, i)

\* C21 amended: the calls of a request are made in the order validate,
\* extract, classify, render, measure, respond.  A render job (the parse of a
\* group followed by its rasterization) starts only after the whole archive
\* has been classified and every recognized entry of both groups decoded;
\* the top job precedes the bottom job, whose parse thus follows the top
\* rasterization; an image is measured, and the handler is at its measure
\* step, only after the job of every non-empty group has completed.
C21_StepsInOrder ==
    \A r \in Req :
        LET log == req[r].log
        IN  /\ \A i, j \in 1..Len(log) : i < j => C21_Rank(log[i]) <= C21_Rank(log[j])
            /\ \A i \in 1..Len(log) :
                   /\ log[i].step \in {"parse", "render_raster"} =>
                          /\ C21_CalledBefore(log, "classify", <<>>, i)
                          /\ C21_CalledBefore(log, "decode", <<>>, i)
                   /\ log[i].step = "render_raster" =>
                          (i > 1 /\ log[i - 1] = [step |-> "parse", name |-> log[i].name])
                   /\ (log[i].step = "parse" /\ log[i].name = output_top_png) =>
                          ~C21_CalledBefore(log, "parse", output_bottom_png, i)
                   /\ log[i].step = "measure" =>
                          \A name \in C21_Sides(r) :
                              C21_CalledBefore(log, "render_raster", name, i)
            /\ req[r].pc = "measure" =>
                   /\ DOMAIN req[r].made = C21_Sides(r)
                   /\ \A name \in C21_Sides(r) : name \in DOMAIN fs[req[r].out_dir]

\* C21 witness: a conversion of both sides has succeeded, having made its
\* eleven calls from the extension check to the response.
C21_Witness ==
    \E r \in Req :
        /\ Succeeded(r)
        /\ C21_Sides(r) = { output_top_png, output_bottom_png }
        /\ Len(req[r].log) = 11
        /\ req[r].log[5].step = "parse" /\ req[r].log[6].step = "render_raster"
        /\ req[r].log[7] = [step |-> "parse", name |-> output_bottom_png]
        /\ req[r].log[9].step = "measure" /\ req[r].log[11].step = "respond"

\* Positions of the log at which `step` of side `name` was called
C22_Calls(log, step, name) ==
    { i \in 1..Len(log) : log[i].step = step /\ log[i].name = name }

\* Position i of the request's log records that a render statement raised
C22_Raised(r, i) == req[r].log[i].step = "raise"

\* C22: within one conversion request the parse and the rasterization of
\* each side are called at most once, and a side whose job was called
\* either has its image written or raised; after a render job has raised,
\* no call of either side's job follows, the handler's next and last call
\* is the response, and that response reports the failure (500).
C22_NoRenderRetry ==
    \A r \in Req :
        LET log == req[r].log
        IN  /\ \A name \in ImageNames :
                   /\ Cardinality(C22_Calls(log, "parse", name)) <= 1
                   /\ Cardinality(C22_Calls(log, "render_raster", name)) <= 1
                   /\ Cardinality(C22_Calls(log, "raise", name)) <= 1
                   /\ C22_Calls(log, "parse", name) # {} =>
                          (name \in DOMAIN req[r].made) # (C22_Calls(log, "raise", name) # {})
            /\ \A i \in 1..Len(log) : C22_Raised(r, i) =>
                   /\ Len(log) = i + 1
                   /\ log[i + 1].step = "respond"
                   /\ req[r].pc = "done"
                   /\ req[r].resp.status = 500
                   /\ req[r].resp.detail = "RenderError"

\* C22 witness: of two conversions of both sides, one failed in the job
\* of its top group and never called the bottom job, the other wrote its top
\* image and failed in the job of the bottom group; both were answered 500.
C22_Witness ==
    /\ \E r \in Req :
           /\ OwnTop(r) /\ OwnBottom(r)
           /\ req[r].pc = "done" /\ req[r].resp.status = 500
           /\ C22_Calls(req[r].log, "raise", output_top_png) # {}
           /\ C22_Calls(req[r].log, "parse", output_bottom_png) = {}
    /\ \E r \in Req :
           /\ req[r].pc = "done" /\ req[r].resp.status = 500
           /\ DOMAIN req[r].made = { output_top_png }
           /\ C22_Calls(req[r].log, "raise", output_bottom_png) # {}

C23_Answers ==
    \/ \E r \in Req : req[r].pc # "done" /\ req'[r].pc = "done"
    \/ \E g \in Get : gets[g].pc # "done" /\ gets'[g].pc = "done"
    \/ lastResp' # NoResponse

C24_OrderInsensitive ==
    (trial.top_first # NotRun /\ trial.bottom_first # NotRun) =>
        /\ trial.top_first.status = trial.bottom_first.status
        /\ { trial.top_first.available_images[i] :
                 i \in 1..Len(trial.top_first.available_images) }
             = { trial.bottom_first.available_images[i] :
                     i \in 1..Len(trial.bottom_first.available_images) }
        /\ trial.top_first.files = trial.bottom_first.files

\* The conversion request was answered for a filename that does not end in
\* ".zip"
C25_Rejected(r) == req[r].pc = "done" /\ ~EndsInZip(req[r].file.filename)

\* What list_images may answer in the current state, over the orders in
\* which os.listdir may return the files
C25_ListAnswers == { list_images(listing) : listing \in CurrentListings }

\* C25: the step that rejects a conversion request because the upload's
\* filename does not end in ".zip" answers 400 and leaves the store as it
\* is: OUTPUT_DIR keeps its value, no directory is made and no file written,
\* and get_image and list_images answer as they did before; the rejected
\* request never gets an output directory or an image afterwards.
C25_RejectedUploadLeavesStore ==
    /\ [][\A r \in Req :
              (req[r].pc = "idle" /\ req'[r].pc # "idle"
                   /\ ~EndsInZip(req'[r].file.filename)) =>
                  /\ req'[r].pc = "done"
                  /\ req'[r].resp.status = 400 /\ req'[r].resp.detail = ZipMsg
                  /\ OUTPUT_DIR' = OUTPUT_DIR
                  /\ Len(fs') = Len(fs)
                  /\ \A d \in 1..Len(fs) : fs'[d] = fs[d]
                  /\ \A image_name \in ImageNames :
                         get_image(image_name)' = get_image(image_name)
                  /\ C25_ListAnswers' = C25_ListAnswers
         ]_vars
    /\ [](\A r \in Req : C25_Rejected(r) =>
              /\ req[r].out_dir = 0
              /\ DOMAIN req[r].made = {}
              /\ \A d \in 1..Len(fs) : \A n \in DOMAIN fs[d] : fs[d][n].owner # r)

\* C25 witness: a request was rejected for its filename after an earlier
\* conversion had succeeded, whose two images the current output directory
\* holds.
C25_Witness ==
    \E r, q \in Req :
        /\ q < r
        /\ Succeeded(q) /\ Len(req[q].resp.available_images) = 2
        /\ C25_Rejected(r) /\ req[r].resp.status = 400
        /\ OUTPUT_DIR = req[q].out_dir
        /\ DOMAIN fs[OUTPUT_DIR] = { output_top_png, output_bottom_png }

\* The conversion request ended Failed
C26_Failed(r) == req[r].pc = "done" /\ req[r].resp.status \in {400, 500}

\* C26: a conversion request that ended Failed has left what get_image and
\* list_images show as it was: no image written by the failed request is
\* served or listed, and while every other request received has Failed, each
\* image a successful conversion listed is still served, as that conversion
\* rendered it.  (Violated by src/main.py.)
C26_FailedRequestLeavesVisibleSet ==
    /\ \A r \in Req : C26_Failed(r) =>
           /\ \A image_name \in ImageNames :
                  get_image(image_name).status = 200 =>
                      get_image(image_name).image.owner # r
           /\ \A listing \in CurrentListings :
                  \A i \in 1..Len(list_images(listing).available_images) :
                      fs[OUTPUT_DIR][list_images(listing).available_images[i].name].owner # r
    /\ \A q \in Req :
           (Succeeded(q) /\ \A r \in Req \ {q} : req[r].pc = "idle" \/ C26_Failed(r)) =>
               \A i \in 1..Len(req[q].resp.available_images) :
                   LET got == get_image(req[q].resp.available_images[i].name)
                   IN  got.status = 200 /\ got.image.owner = q

\* The conversions whose output names include the file name f
C27_Writers(f) == { r \in Req : f = output_top(r) \/ f = output_bottom(r) }

\* C27: in the shared-store variant, ids being unique, every file of the
\* store was written by exactly one conversion, the one whose id its name
\* carries; a step that writes a file writes it at a path that holds no
\* file, a file in the store is never replaced, and a file leaves the store
\* only in a run of the sweep.
C27_ArtifactWrittenOnce ==
    /\ [](\A f \in DOMAIN store :
              /\ Cardinality(C27_Writers(f)) = 1
              /\ store[f].owner \in C27_Writers(f)
              /\ req[store[f].owner].pc = "done")
    /\ [][ /\ \A f \in DOMAIN store :
                  /\ f \in DOMAIN store' => store'[f] = store[f]
                  /\ f \notin DOMAIN store' =>
                         (sweeps' = sweeps - 1 /\ DOMAIN store' \subseteq DOMAIN store)
           /\ \A f \in DOMAIN store' \ DOMAIN store :
                  /\ req[store'[f].owner].pc # "done"
                  /\ req'[store'[f].owner].pc = "done"
                  /\ \A g \in DOMAIN store : store[g].owner # store'[f].owner
         ]_vars

\* C27 witness: every conversion has written its two images, not all at
\* the same time, and the store holds all of them, each under its writer's
\* names.
C27_Witness ==
    /\ \A r \in Req : Succeeded(r) /\ Len(req[r].resp.available_images) = 2
    /\ Cardinality(DOMAIN store) = 2 * MaxReq
    /\ \A r \in Req : store[output_top(r)].owner = r /\ store[output_bottom(r)].owner = r
    /\ \E r, q \in Req : store[output_top(r)].st_mtime # store[output_top(q)].st_mtime

\* The render calls the request made, in order: with the sizes in `made`,
\* the results of its render jobs
C28_RenderCalls(r) ==
    LET IsRender(call) == call.step \in {"parse", "render_raster", "raise"}
    IN  SelectSeq(req[r].log, IsRender)

\* The images the request's own render jobs wrote, as a directory
C28_OwnImages(r) ==
    [n \in DOMAIN req[r].made |->
        [owner |-> r, width |-> req[r].made[n][1], height |-> req[r].made[n][2]]]

\* C28: in the per-request-directory variant the response of a conversion
\* is determined by its own upload and render results: two requests with the
\* same upload and the same render results, whatever was handled before or
\* during each, have the same status, detail, available_images and
\* average_dimensions, and a 200 response lists exactly the images the
\* request's own render jobs wrote, with their sizes.
C28_ResponseFromOwnInputs ==
    /\ \A r, q \in Req :
           (/\ req[r].pc = "done" /\ req[q].pc = "done"
            /\ req[r].file = req[q].file
            /\ req[r].made = req[q].made
            /\ C28_RenderCalls(r) = C28_RenderCalls(q)) =>
               req[r].resp = req[q].resp
    /\ \A r \in Req : Succeeded(r) =>
           /\ req[r].resp.available_images =
                  Measure(C28_OwnImages(r), <<output_top_png, output_bottom_png>>)
           /\ req[r].resp.average_dimensions =
                  AverageDimensions(req[r].resp.available_images)

\* C28 witness: two requests uploaded the same two-sided archive and got
\* the same render results, the second one in the temporary directory made
\* next after the first one's; both have been answered 200 with two images.
C28_Witness ==
    \E r, q \in Req :
        /\ r < q
        /\ Succeeded(r) /\ Succeeded(q)
        /\ req[r].file = req[q].file
        /\ req[r].made = req[q].made
        /\ DOMAIN req[r].made = { output_top_png, output_bottom_png }
        /\ req[q].out_dir = req[r].out_dir + 1
        /\ Len(req[r].resp.available_images) = 2

====
